---------------------------- MODULE Spec2Model ----------------------------
(***************************************************************************)
(* Model of the multi-pass merge / normalize / validate pipeline of the    *)
(* visual descriptor (src/src/visual_descriptor).                          *)
(*                                                                         *)
(* JSON-like Python values are tagged records:                             *)
(*   None        [k |-> "null"]                                            *)
(*   str         [k |-> "str",  s |-> <the string>]                        *)
(*   int/float   [k |-> "num",  s |-> <its str() form>]                    *)
(*   bool        [k |-> "bool", s |-> "True" / "False"]                    *)
(*   list        [k |-> "list", l |-> <sequence of values>]                *)
(*   dict        [k |-> "dict", d |-> <function from keys to values>]      *)
(* An exception leaving a function is a result record with err # "".       *)
(***************************************************************************)
EXTENDS Integers, Sequences, FiniteSets, TLC

VARIABLES
    \* --- merge_pass harness (SpecMerge) ---
    mState,      \* "ready" | "called" (SpecMerge); "lists" | "listed" (SpecLists)
    mBase,       \* the mapping passed as base, as it was before the call
    mIn,         \* the fragment passed as incoming, as it was before the call
    mConfIn,     \* third argument of merge_pass (confidence of the fragment)
    mConfBase,   \* fourth argument of merge_pass (fields_scope slot)
    mOut,        \* result of the call: [err, v]
    mBaseAfter,  \* the object passed as base, as it is after the call
    mInAfter,    \* the object passed as incoming, as it is after the call
    mTwice,      \* merge_pass(out, incoming, ...) on the result of the call
    \* --- normalize_record harness (SpecNorm) ---
    nState,      \* "ready" | "once" | "twice"
    nIn,         \* the record given to normalize_record
    nOnce,       \* normalize_record(nIn): [err, v]
    nTwice,      \* normalize_record(normalize_record(nIn)): [err, v]
    nInAfter,    \* the object passed to the first call, as it is after the call
    \* --- sanitize_record harness (SpecSanitize) ---
    sState,      \* "ready" | "called"
    sIn,         \* the record given to sanitize_record, as it was before the call
    sOut,        \* the mapping sanitize_record(sIn) returned
    sInAfter,    \* the object passed as rec, as it is after the call
    \* --- Engine.enumerate_inputs harness (SpecEnumerate) ---
    eState,      \* "ready" | "called"
    eFs,         \* the file system: [files, dirs], two sets of paths
    ePath,       \* the in_path argument
    eFound,      \* the paths of the list returned
    \* --- Engine and Engine.describe_image (Spec) ---
    requested,   \* the model argument Engine was built with
    importable,  \* the captioner classes the captioners package could import
    model,       \* type(self.model).__name__
    pc,          \* "idle" | "fold" | "returned" | "raised"
    normalize,   \* Engine.normalize
    rec,         \* the record folded from the passes run so far
    passesLeft,  \* passes of the passes argument not yet run
    frags,       \* the fragments returned by the backend so far, in order
    result,      \* the record returned by describe_image
    error        \* the exception raised by describe_image: [type, fields],
                 \* fields being the fields a ValidationError names

vars == <<mState, mBase, mIn, mConfIn, mConfBase, mOut, mBaseAfter, mInAfter,
          mTwice,
          nState, nIn, nOnce, nTwice, nInAfter,
          sState, sIn, sOut, sInAfter,
          eState, eFs, ePath, eFound,
          requested, importable, model,
          pc, normalize, rec, passesLeft, frags, result, error>>

mergeVars == <<mState, mBase, mIn, mConfIn, mConfBase, mOut, mBaseAfter,
               mInAfter, mTwice>>
normVars == <<nState, nIn, nOnce, nTwice, nInAfter>>
sanVars == <<sState, sIn, sOut, sInAfter>>
enumVars == <<eState, eFs, ePath, eFound>>
engineVars == <<requested, importable, model,
                pc, normalize, rec, passesLeft, frags, result, error>>

---------------------------------------------------------------------------
(* Python values *)

Null == [k |-> "null"]
Str(s) == [k |-> "str", s |-> s]
Num(s) == [k |-> "num", s |-> s]
Bool(s) == [k |-> "bool", s |-> s]
List(l) == [k |-> "list", l |-> l]
Dict(d) == [k |-> "dict", d |-> d]

EmptyD == [x \in {} |-> Null]

IsNone(v) == v.k = "null"
IsStr(v) == v.k = "str"
IsList(v) == v.k = "list"
IsDict(v) == v.k = "dict"

\* bool(v)
Truthy(v) ==
    CASE v.k = "null" -> FALSE
      [] v.k = "str"  -> v.s # ""
      [] v.k = "num"  -> v.s \notin {"0", "0.0"}
      [] v.k = "bool" -> v.s = "True"
      [] v.k = "list" -> v.l # <<>>
      [] v.k = "dict" -> DOMAIN v.d # {}

\* a or b
Or(a, b) == IF Truthy(a) THEN a ELSE b

\* d.get(key) on a dict value
Get(v, key) == IF key \in DOMAIN v.d THEN v.d[key] ELSE Null

\* the function f with f[key] = val
Put(f, key, val) ==
    [x \in DOMAIN f \cup {key} |-> IF x = key THEN val ELSE f[x]]

\* d.pop(key, None)
Pop(f, key) == [x \in DOMAIN f \ {key} |-> f[x]]

\* d.setdefault(key, val)
SetDefault(f, key, val) == IF key \in DOMAIN f THEN f ELSE Put(f, key, val)

\* str(v) of a scalar
PyStr(v) ==
    CASE v.k = "null" -> "None"
      [] v.k \in {"str", "num", "bool"} -> v.s

Ok(v) == [err |-> "", v |-> v]
NoError == [type |-> "", fields |-> {}]

\* F(e), the value of e being computed once
With(e, F(_)) == CHOOSE y \in {F(x) : x \in {e}} : TRUE
Raise(e) == [err |-> e, v |-> Null]

---------------------------------------------------------------------------
(* str.strip() and str.lower() on the strings of the model.  Every string  *)
(* of the model's universe that has leading or trailing white space, or an *)
(* upper-case letter, is listed; every other string is a fixed point.      *)

strip(s) ==
    CASE s = " NULL "  -> "NULL"
      [] s = " null "  -> "null"
      [] s = "  "      -> ""
      [] s = " Cream " -> "Cream"
      [] s = " cream " -> "cream"
      [] s = " front"  -> "front"
      [] s = " back"   -> "back"
      [] s = " side"   -> "side"
      [] s = " vest"   -> "vest"
      [] s = " facing camera" -> "facing camera"
      [] s = " three-quarter turn" -> "three-quarter turn"
      [] s = " hand on hip" -> "hand on hip"
      [] s = " overhead" -> "overhead"
      [] s = " Bomber " -> "Bomber"
      [] OTHER         -> s

lower(s) ==
    CASE s = " NULL "  -> " null "
      [] s = "NULL"    -> "null"
      [] s = " Cream " -> " cream "
      [] s = "Cream"   -> "cream"
      [] s = "None"    -> "none"
      [] s = "True"    -> "true"
      [] s = "False"   -> "false"
      [] s = "Unknown" -> "unknown"
      [] s = "Shiny"   -> "shiny"
      [] s = ".PNG"    -> ".png"
      [] s = "Navy"    -> "navy"
      [] s = "Double-Breasted front" -> "double-breasted front"
      [] s = "Zip"     -> "zip"
      [] s = " Bomber " -> " bomber "
      [] s = "Bomber"  -> "bomber"
      [] s = "Shirt Dress" -> "shirt dress"
      [] s = "Mini"    -> "mini"
      [] OTHER         -> s

(* str.split(",") on the strings of the model: every string of the universe *)
(* that holds a comma is listed.                                            *)
SplitComma(s) ==
    CASE s = "front, back" -> <<"front", " back">>
      [] s = "back, front, back, side" -> <<"back", " front", " back", " side">>
      [] s = "front, side, back" -> <<"front", " side", " back">>
      [] s = "jacket, vest" -> <<"jacket", " vest">>
      [] s = "top, overhead" -> <<"top", " overhead">>
      [] s = "front, front" -> <<"front", " front">>
      [] s = "standing, facing camera" -> <<"standing", " facing camera">>
      [] s = "standing, three-quarter turn, hand on hip" ->
             <<"standing", " three-quarter turn", " hand on hip">>
      [] OTHER -> <<s>>

(* "sub in s" on the strings of the model: for every substring the source   *)
(* looks for, the strings of the universe that hold it.                      *)
Contains(s, sub) ==
    \/ s = sub
    \/ sub = ""
    \/ sub = "to camera" /\ s = "back to camera"
    \/ sub = "facing camera" /\ s = "standing, facing camera"
    \/ sub = "double-breasted" /\ s = "double-breasted front"
    \/ sub = "zip" /\ s = "exposed front zipper with ring pull"
    \/ sub = "long" /\ s = "long sleeve"
    \/ sub = "dress" /\ s = "shirt dress"
    \/ sub = "side seam" /\ s = "side seam "
    \/ sub = "stitch" /\ s = " topstitch"

\* ", ".join(strs)
RECURSIVE JoinComma(_)
JoinComma(strs) ==
    IF strs = <<>> THEN ""
    ELSE IF Len(strs) = 1 THEN strs[1]
    ELSE strs[1] \o ", " \o JoinComma(Tail(strs))

---------------------------------------------------------------------------
(* multipass_merge.py *)

\* "if not isinstance(a, list): a = [] if a is None else [a]"
AsList(v) == IF IsList(v) THEN v.l ELSE IF IsNone(v) THEN <<>> ELSE <<v>>

\* The de-duplication key of one list item.  Items of the model's lists are
\* scalars or flat dicts of scalars.
ItemKey(it) ==
    IF IsDict(it)
    THEN IF {"role", "name", "hex"} \subseteq DOMAIN it.d
         THEN [t |-> "color", role |-> it.d["role"], name |-> it.d["name"],
               hex |-> it.d["hex"]]
         ELSE [t |-> "items", m |-> [x \in DOMAIN it.d |-> PyStr(it.d[x])]]
    ELSE [t |-> "_val_", s |-> PyStr(it)]

\* The loop of _merge_lists: keep the first item of every key, in order.
RECURSIVE DedupLoop(_, _, _)
DedupLoop(items, seen, out) ==
    IF items = <<>> THEN out
    ELSE LET it == Head(items)
             key == ItemKey(it)
         IN  IF key \in seen
             THEN DedupLoop(Tail(items), seen, out)
             ELSE DedupLoop(Tail(items), seen \cup {key}, Append(out, it))

\* a list merge that appends without looking for duplicates
ConcatLists(a, b) == AsList(a) \o AsList(b)

_merge_lists(a, b) == DedupLoop(AsList(a) \o AsList(b), {}, <<>>)

\* dict(v): a copy of a mapping; any other non-empty value raises.  (Lists of
\* two-element items, which dict() accepts, are not in the model's universe.)
PyDict(v) ==
    CASE IsDict(v) -> Ok(v)
      [] IsStr(v)  -> Raise("ValueError")
      [] IsList(v) -> IF v.l # <<>> /\ IsStr(Head(v.l))
                      THEN Raise("ValueError") ELSE Raise("TypeError")
      [] OTHER     -> Raise("TypeError")

\* a merge of two scalars that keeps a non-empty value already held
KeepFirstValue(va, vb) == IF Truthy(va) THEN va ELSE vb

\* "out[k] = vb": the branch of _merge_dicts for two values that are neither
\* both mappings nor (either of them) a list.
OverwriteValue(va, vb) == vb

\* _merge_dicts(a, b) for two mappings, as its recursive call uses it.
RECURSIVE MergeMappings(_, _)
MergeMappings(a, b) ==
    IF ~Truthy(a) THEN b
    ELSE IF ~Truthy(b) THEN a
    ELSE Dict([x \in DOMAIN a.d \cup DOMAIN b.d |->
                 IF x \notin DOMAIN b.d THEN a.d[x]
                 ELSE LET va == Get(a, x)
                          vb == b.d[x]
                      IN  IF IsDict(va) /\ IsDict(vb)
                          THEN MergeMappings(va, vb)
                          ELSE IF IsList(va) \/ IsList(vb)
                          THEN List(_merge_lists(va, vb))
                          ELSE OverwriteValue(va, vb)])

\* _merge_dicts(a, b) as merge_pass calls it, with any value for a and b:
\* [err, v].
_merge_dicts(a, b) ==
    IF ~Truthy(a) THEN PyDict(Or(b, Dict(EmptyD)))
    ELSE IF ~Truthy(b) THEN PyDict(Or(a, Dict(EmptyD)))
    ELSE IF ~IsDict(a) THEN PyDict(a)
    ELSE IF ~IsDict(b) THEN Raise("AttributeError")
    ELSE Ok(MergeMappings(a, b))

\* Which object out["colors"] is after _merge_dicts(a, b): the very object
\* held by a ("base"), the one held by b ("incoming"), or a new one ("fresh").
\* dict(a) copies only the top level, "out[k] = vb" stores b's object, and the
\* recursive merge and the list union build new objects.
ColorsOwner(a, b) ==
    IF ~Truthy(a) THEN "incoming"
    ELSE IF "colors" \notin DOMAIN b.d THEN "base"
    ELSE IF IsDict(Get(a, "colors")) /\ IsDict(b.d["colors"]) THEN "fresh"
    ELSE IF IsList(Get(a, "colors")) \/ IsList(b.d["colors"]) THEN "fresh"
    ELSE "incoming"

AccentCap == 12

Min(x, y) == IF x < y THEN x ELSE y

\* the accent hygiene without its "[:12]"
DedupedAccents(accents) == List(_merge_lists(List(<<>>), accents))

\* "deduped = _merge_lists([], colors['accents'])" and "deduped[:12]"
CappedAccents(accents) ==
    LET deduped == _merge_lists(List(<<>>), accents)
    IN  List(SubSeq(deduped, 1, Min(AccentCap, Len(deduped))))

\* colors with colors["accents"] assigned the de-duplicated, capped list
WithCappedAccents(v) ==
    LET colors == Get(v, "colors")
    IN  Dict(Put(v.d, "colors",
                 Dict(Put(colors.d, "accents",
                          CappedAccents(Get(colors, "accents"))))))

\* merge_pass without its "if not incoming: return base": the merge and the
\* accent hygiene run on an empty fragment too.
merge_pass_without_empty_return(base, incoming, conf_in, fields_scope) ==
    LET b0 == IF IsNone(base) THEN Dict(EmptyD) ELSE base
        m == _merge_dicts(b0, incoming)
        colors == Get(m.v, "colors")
    IN  IF m.err # ""
        THEN [err |-> m.err, v |-> Null, base |-> base, incoming |-> incoming]
        ELSE IF IsDict(colors) /\ IsList(Get(colors, "accents"))
        THEN [err |-> "", v |-> WithCappedAccents(m.v),
              base |-> base, incoming |-> incoming]
        ELSE [err |-> "", v |-> m.v, base |-> base, incoming |-> incoming]

\* merge_pass(base, incoming, conf_in, fields_scope):
\*   err, v            the exception raised, or the mapping returned
\*   base, incoming    the two argument objects as they are after the call
merge_pass(base, incoming, conf_in, fields_scope) ==
    LET b0 == IF IsNone(base) THEN Dict(EmptyD) ELSE base
    IN  IF ~Truthy(incoming)
        THEN [err |-> "", v |-> b0, base |-> base, incoming |-> incoming]
        ELSE
        LET m == _merge_dicts(b0, incoming)
        IN  IF m.err # ""
            THEN [err |-> m.err, v |-> Null, base |-> base, incoming |-> incoming]
            ELSE
            LET out == m.v
                colors == Get(out, "colors")
                hygiene == IsDict(colors) /\ IsList(Get(colors, "accents"))
                owner == ColorsOwner(b0, incoming)
            IN  IF ~hygiene
                THEN [err |-> "", v |-> out, base |-> base, incoming |-> incoming]
                ELSE [err |-> "", v |-> WithCappedAccents(out),
                      base |-> IF owner = "base" /\ ~IsNone(base)
                               THEN WithCappedAccents(base) ELSE base,
                      incoming |-> IF owner = "incoming"
                                   THEN WithCappedAccents(incoming) ELSE incoming]

---------------------------------------------------------------------------
(* normalize_vocab.py *)

\* the mapping that sends every string of keys to itself
Same(keys) == [x \in keys |-> x]

TOP_LENGTH_MAP ==
    ("crop" :> "cropped") @@
    Same({"cropped", "waist", "hip", "thigh", "longline", "tunic"})

BOTTOM_LENGTH_MAP ==
    ("mid" :> "midi") @@
    Same({"mini", "short", "midi", "ankle", "maxi", "floor"})

FABRIC_TYPE_MAP ==
    Same({"denim", "cotton", "wool", "wool blend", "leather", "faux leather",
          "suede", "jersey", "knit", "satin", "silk", "linen", "polyester",
          "polyester blend", "nylon", "nylon blend", "mesh"})

FABRIC_TEXTURE_MAP ==
    ("reflective" :> "shiny") @@
    Same({"smooth", "ribbed", "quilted", "brushed", "fuzzy", "plush", "matte",
          "shiny", "textured", "cable-knit"})

FABRIC_WEIGHT_MAP ==
    ("lightweight" :> "light" @@ "midweight" :> "medium" @@
     "heavyweight" :> "heavy") @@
    Same({"light", "medium", "heavy"})

COLOR_MAP ==
    ("off white" :> "ivory" @@ "off-white" :> "ivory" @@ "cream" :> "ivory" @@
     "grey" :> "gray" @@ "charcoal" :> "gray" @@ "chocolate" :> "brown") @@
    Same({"ivory", "white", "black", "gray", "tan", "beige", "camel", "brown",
          "purple", "violet", "plum", "eggplant", "lavender", "lilac",
          "amethyst", "red", "crimson", "maroon", "burgundy", "blue", "navy",
          "royal blue", "sky blue", "green", "olive", "forest", "mint",
          "yellow", "mustard", "gold", "lemon", "orange", "rust", "peach",
          "apricot"})

STITCHING_COLOR_MAP ==
    ("match" :> "matching" @@ "light contrast" :> "contrast-light" @@
     "contrast dark" :> "contrast-dark") @@
    Same({"matching", "white", "black", "contrast", "contrast-light",
          "contrast-dark"})

\* _norm(val, mapping).  str() of a list or a dict is no key of any mapping.
_norm(val, mapping) ==
    IF ~Truthy(val) THEN val
    ELSE IF val.k \in {"list", "dict"} THEN val
    ELSE LET key == lower(strip(PyStr(val)))
         IN  IF key \in DOMAIN mapping THEN Str(mapping[key]) ELSE val

\* the loop of _norm_list: [err, v, seen]
RECURSIVE NormListLoop(_, _, _, _)
NormListLoop(values, mapping, out, seen) ==
    IF values = <<>> THEN Ok(List(out))
    ELSE LET v == Head(values)
             nv0 == Or(_norm(v, mapping), v)
             nv == IF IsStr(nv0) THEN Str(strip(nv0.s)) ELSE nv0
         IN  IF ~Truthy(nv)
             THEN NormListLoop(Tail(values), mapping, out, seen)
             ELSE IF ~IsStr(nv)
             THEN Raise("AttributeError")    \* nv.lower() on a non-string
             ELSE IF lower(nv.s) \in seen
             THEN NormListLoop(Tail(values), mapping, out, seen)
             ELSE NormListLoop(Tail(values), mapping, Append(out, nv),
                               seen \cup {lower(nv.s)})

\* _norm_list(values, mapping) for a list value: [err, v]
_norm_list(values, mapping) == NormListLoop(values.l, mapping, <<>>, {})

PLACEHOLDERS == {"string", "string|null", "null", "none", "unknown"}

_clean_placeholders(val) ==
    IF IsStr(val) /\ lower(strip(val.s)) \in PLACEHOLDERS THEN Null ELSE val

\* "(x or '').strip().lower()": [err, v] with v a plain string
StripLower(x) ==
    LET y == Or(x, Str(""))
    IN  IF IsStr(y) THEN Ok(lower(strip(y.s))) ELSE Raise("AttributeError")

\* [f(s[1]), ..., f(s[n])] restricted to the truthy results of Clean
CleanList(seq) ==
    LET cleaned == [i \in 1..Len(seq) |-> _clean_placeholders(seq[i])]
    IN  SelectSeq(cleaned, Truthy)

\* "Normalize colors": [err, v] with v the record
NormColors(r) ==
    IF IsList(Get(r, "color_palette"))
    THEN LET nl == _norm_list(Get(r, "color_palette"), COLOR_MAP)
         IN  IF nl.err # "" THEN [err |-> nl.err, v |-> r]
             ELSE Ok(Dict(Put(r.d, "color_palette", nl.v)))
    ELSE Ok(r)

\* "Normalize fabric (and add satin inference)": [err, v]
NormFabric(r) ==
    LET c == PyDict(Or(Get(r, "fabric"), Dict(EmptyD)))
    IN  IF c.err # "" THEN [err |-> c.err, v |-> r]
        ELSE
        LET f0 == c.v
            f1 == Put(f0.d, "type", _norm(Get(f0, "type"), FABRIC_TYPE_MAP))
            f2 == Put(f1, "texture",
                      _norm(Get(Dict(f1), "texture"), FABRIC_TEXTURE_MAP))
            f3 == Put(f2, "weight",
                      _norm(Get(Dict(f2), "weight"), FABRIC_WEIGHT_MAP))
            ftype == StripLower(f3["type"])
            finish == StripLower(Get(Dict(f3), "finish"))
            texture == StripLower(f3["texture"])
            stored == Dict(Put(r.d, "fabric", Dict(f3)))
        IN  IF ftype.err # "" THEN [err |-> ftype.err, v |-> stored]
            ELSE IF finish.err # "" THEN [err |-> finish.err, v |-> stored]
            ELSE IF texture.err # "" THEN [err |-> texture.err, v |-> stored]
            ELSE IF /\ ftype.v \in {"", "synthetic", "poly", "polyester", "unknown"}
                    /\ finish.v = "shiny" /\ texture.v = "smooth"
            THEN Ok(Dict(Put(r.d, "fabric", Dict(Put(f3, "type", Str("satin"))))))
            ELSE Ok(Dict(Put(r.d, "fabric", Dict(f3))))

\* one construction block with its stitching_color normalized
NormStitching(blk) ==
    Dict(Put(blk.d, "stitching_color",
             _norm(Get(blk, "stitching_color"), STITCHING_COLOR_MAP)))

\* "Normalize stitching color": [err, v]
NormConstruction(r) ==
    LET c == PyDict(Or(Get(r, "construction"), Dict(EmptyD)))
    IN  IF c.err # "" THEN [err |-> c.err, v |-> r]
        ELSE
        LET c1 == NormStitching(c.v)
            c2 == Dict([x \in DOMAIN c1.d |->
                          IF x \in {"top", "bottom"} /\ IsDict(c1.d[x])
                          THEN NormStitching(c1.d[x]) ELSE c1.d[x]])
        IN  Ok(Dict(Put(r.d, "construction", c2)))

\* "Normalize garment components": [err, v]
NormComponents(r) ==
    LET c == PyDict(Or(Get(r, "garment_components"), Dict(EmptyD)))
    IN  IF c.err # "" THEN [err |-> c.err, v |-> r]
        ELSE
        LET g1 == Put(c.v.d, "top_length",
                      _norm(Get(c.v, "top_length"), TOP_LENGTH_MAP))
            g2 == Put(g1, "bottom_length",
                      _norm(Get(Dict(g1), "bottom_length"), BOTTOM_LENGTH_MAP))
            layers == Get(Dict(g2), "layers")
            kept(x) == Truthy(_clean_placeholders(x))
            g3 == Put(g2, "layers",
                      IF IsList(layers) THEN List(SelectSeq(layers.l, kept))
                      ELSE List(<<>>))
        IN  Ok(Dict(Put(r.d, "garment_components", Dict(g3))))

\* "Clean placeholders across record": top-level strings, the entries of
\* top-level lists, and the values of top-level mappings
CleanRecord(r) ==
    Dict([x \in DOMAIN r.d |->
            LET value == r.d[x]
            IN  CASE IsStr(value)  -> _clean_placeholders(value)
                  [] IsList(value) -> List(CleanList(value.l))
                  [] IsDict(value) ->
                        Dict([y \in DOMAIN value.d |->
                                _clean_placeholders(value.d[y])])
                  [] OTHER         -> value])

\* normalize_record(r) for a mapping r: [err, v].  The function works on r
\* itself and returns it, so v is both the mapping returned and the object
\* passed in as the call leaves it; when the call raises (err # ""), v is r as
\* the statements run so far have left it.
normalize_record(r) ==
    With(NormColors(r), LAMBDA a :
      IF a.err # "" THEN a
      ELSE With(NormFabric(a.v), LAMBDA b :
        IF b.err # "" THEN b
        ELSE With(NormConstruction(b.v), LAMBDA c :
          IF c.err # "" THEN c
          ELSE With(NormComponents(c.v), LAMBDA g :
            IF g.err # "" THEN g
            ELSE Ok(CleanRecord(g.v))))))

---------------------------------------------------------------------------
(* engine.py: the steps of describe_image after the passes *)

\* "(x or '').strip()": [err, v] with v a plain string
StripOf(x) ==
    LET y == Or(x, Str(""))
    IN  IF IsStr(y) THEN Ok(strip(y.s)) ELSE Raise("AttributeError")

\* the loop over colors["accents"]: [err, v] with v the det_bits collected
RECURSIVE AccentBits(_, _)
AccentBits(accents, bits) ==
    IF accents = <<>> THEN Ok(bits)
    ELSE LET a == Head(accents)
         IN  IF ~IsDict(a) THEN AccentBits(Tail(accents), bits)
             ELSE LET role == StripOf(Get(a, "role"))
                      col == StripOf(Or(Get(a, "name"), Get(a, "color")))
                  IN  IF role.err # "" THEN Raise(role.err)
                      ELSE IF col.err # "" THEN Raise(col.err)
                      ELSE IF role.v # "" /\ col.v # ""
                      THEN AccentBits(Tail(accents),
                                      Append(bits, col.v \o " " \o role.v))
                      ELSE AccentBits(Tail(accents), bits)

\* _name(node) of _adapt_colors_from_vlm: [err, v]
PatternName(node) ==
    CASE IsDict(node) -> StripOf(Or(Get(node, "name"), Get(node, "color")))
      [] IsStr(node)  -> Ok(strip(node.s))
      [] OTHER        -> Ok("")

\* the det_bits contributed by the pattern: [err, v]
PatternBits(pattern) ==
    IF ~IsDict(pattern) THEN Ok(<<>>)
    ELSE LET ptype == StripOf(Get(pattern, "type"))
             fg == PatternName(Get(pattern, "foreground"))
         IN  IF ptype.err # "" THEN Raise(ptype.err)
             ELSE IF fg.err # "" THEN Raise(fg.err)
             ELSE IF ptype.v \in {"polka_dot", "polka dots", "polka-dot"} /\ fg.v # ""
             THEN Ok(<<fg.v \o " polka dots">>)
             ELSE IF ptype.v \in {"stripe", "striped"} /\ fg.v # ""
             THEN Ok(<<fg.v \o " stripes">>)
             ELSE IF ptype.v \in {"plaid", "check"}
             THEN Ok(<<IF fg.v # "" THEN fg.v \o " " \o ptype.v ELSE ptype.v>>)
             ELSE IF ptype.v = "colorblock" THEN Ok(<<"colorblock">>)
             ELSE Ok(<<>>)

AllStr(v) == IsList(v) /\ \A i \in 1..Len(v.l) : IsStr(v.l[i])

\* "de-dup preserving order" over plain strings
RECURSIVE UniqueStripped(_, _, _)
UniqueStripped(strs, seen, out) ==
    IF strs = <<>> THEN out
    ELSE LET s2 == strip(Head(strs))
         IN  IF s2 = "" \/ lower(s2) \in seen
             THEN UniqueStripped(Tail(strs), seen, out)
             ELSE UniqueStripped(Tail(strs), seen \cup {lower(s2)},
                                 Append(out, Str(s2)))

\* _adapt_colors_from_vlm(rec): [err, v] with v the record after the call
_adapt_colors_from_vlm(r) ==
    LET colors == Get(r, "colors")
    IN  IF ~IsDict(colors) THEN Ok(r)
        ELSE
        LET prim == Get(colors, "primary")
            sec == Get(colors, "secondary")
            r1 == IF IsStr(prim) /\ strip(prim.s) # ""
                  THEN Put(r.d, "color_primary", Str(strip(prim.s))) ELSE r.d
            r2 == IF IsStr(sec) /\ strip(sec.s) # ""
                  THEN Put(r1, "color_secondary", Str(strip(sec.s))) ELSE r1
            accents == Or(Get(colors, "accents"), List(<<>>))
            abits == IF IsList(accents) THEN AccentBits(accents.l, <<>>)
                     ELSE Ok(<<>>)
            pattern == IF "pattern" \in DOMAIN colors.d THEN colors.d["pattern"]
                       ELSE Get(r, "pattern")
            pbits == PatternBits(pattern)
        IN  IF abits.err # "" THEN Raise(abits.err)
            ELSE IF pbits.err # "" THEN Raise(pbits.err)
            ELSE
            LET existing == IF AllStr(Get(r, "details"))
                            THEN [i \in 1..Len(Get(r, "details").l) |->
                                    Get(r, "details").l[i].s]
                            ELSE <<>>
                out == UniqueStripped(existing \o abits.v \o pbits.v, {}, <<>>)
            IN  IF out # <<>> THEN Ok(Dict(Put(r2, "details", List(out))))
                ELSE Ok(Dict(Pop(r2, "details")))

\* "details must be list[str] or absent" (describe_image and _sanitize_types)
SanitizeDetails(r) ==
    LET dets == Get(r, "details")
    IN  IF IsList(dets)
        THEN LET only_str == SelectSeq(dets.l, IsStr)
             IN  IF only_str # <<>>
                 THEN Dict(Put(r.d, "details", List(only_str)))
                 ELSE Dict(Pop(r.d, "details"))
        ELSE IF ~IsNone(dets) THEN Dict(Pop(r.d, "details"))
        ELSE r

_coerce_str(value) ==
    IF IsStr(value) /\ strip(value.s) # "" THEN Str(strip(value.s)) ELSE Null

\* the mapping with _coerce_str applied to those of keys it holds
CoerceKeys(v, keys) ==
    Dict([x \in DOMAIN v.d |-> IF x \in keys THEN _coerce_str(v.d[x]) ELSE v.d[x]])

GarmentStringKeys ==
    {"top_style", "top", "top_sleeve", "bottom", "silhouette", "garment_type"}

ConstructionStringKeys ==
    {"seams", "stitching", "stitching_color", "hems", "closure"}

\* _sanitize_types(rec): the record after the call
_sanitize_types(r) ==
    LET g == IF IsDict(Get(r, "garment")) THEN Get(r, "garment") ELSE Dict(EmptyD)
        r1 == Put(CoerceKeys(r, GarmentStringKeys).d, "garment",
                  CoerceKeys(g, GarmentStringKeys))
        cons == Get(Dict(r1), "construction")
        cons1 == CoerceKeys(cons, ConstructionStringKeys)
        cons2 == Dict([x \in DOMAIN cons1.d |->
                         IF x \in {"top", "bottom"} /\ IsDict(cons1.d[x])
                         THEN CoerceKeys(cons1.d[x], ConstructionStringKeys)
                         ELSE cons1.d[x]])
        r2 == IF IsDict(cons) THEN Put(r1, "construction", cons2) ELSE r1
    IN  SanitizeDetails(Dict(r2))

\* "metadata + field defaults"
FieldDefaults(r) ==
    Dict(SetDefault(
           SetDefault(
             SetDefault(r.d, "version", Str("vd_v1.0.0")),
             "confidence", Dict(EmptyD)),
           "footwear", Dict([type |-> Null, color |-> Null])))

---------------------------------------------------------------------------
(* schema.py: Record *)

_default_fabric ==
    Dict([type |-> Null, texture |-> Null, weight |-> Null, finish |-> Null])
_default_garment ==
    Dict([top |-> Null, bottom |-> Null, top_style |-> Null, top_sleeve |-> Null])
_default_garment_components ==
    Dict([top_length |-> Null, bottom_length |-> Null, layers |-> List(<<>>)])
_default_construction ==
    Dict([seams |-> Null, stitching |-> Null, stitching_color |-> Null,
          hems |-> Null, closure |-> Null, top |-> Null, bottom |-> Null])
_default_environment == Dict([setup |-> Null, mood |-> Null, background |-> Null])
_default_footwear == Dict([type |-> Null, color |-> Null])
_default_model == Dict([framing |-> Null, expression |-> Null, gaze |-> Null])
_default_camera ==
    Dict([view |-> Null, multiview |-> Null, views |-> Null, angle |-> Null])
_default_styling == Dict([layering |-> Null, accessories |-> Null])

\* b.update(a): the mapping a laid over the mapping b
Update(b, a) ==
    Dict([x \in DOMAIN b.d \cup DOMAIN a.d |->
            IF x \in DOMAIN a.d THEN a.d[x] ELSE b.d[x]])

\* "[str(x).strip() for x in seq if str(x).strip()]" as plain strings
StrippedStrs(seq) ==
    LET strs == [i \in 1..Len(seq) |-> strip(PyStr(seq[i]))]
    IN  SelectSeq(strs, LAMBDA t : t # "")

\* "[t.strip() for t in s.split(',') if t.strip()]" as plain strings
Tokens(s) ==
    LET parts == SplitComma(s)
        strs == [i \in 1..Len(parts) |-> strip(parts[i])]
    IN  SelectSeq(strs, LAMBDA t : t # "")

StrList(strs) == List([i \in 1..Len(strs) |-> Str(strs[i])])

\* "<joined string> or None"
StrOrNone(t) == IF t = "" THEN Null ELSE Str(t)

\* Record._coerce_gcs
_coerce_gcs(v) ==
    IF ~IsDict(v) THEN _default_garment_components
    ELSE LET out == Update(_default_garment_components, v)
             layers == out.d["layers"]
             clean ==
                 CASE IsNone(layers) -> List(<<>>)
                   [] IsStr(layers)  -> StrList(Tokens(layers.s))
                   [] IsList(layers) -> StrList(StrippedStrs(layers.l))
                   [] OTHER          -> StrList(StrippedStrs(<<layers>>))
         IN  Dict(Put(out.d, "layers", clean))

\* Record._coerce_cons
_coerce_cons(v) ==
    IF ~IsDict(v) THEN _default_construction
    ELSE LET out == Update(_default_construction, v)
         IN  Dict([x \in DOMAIN out.d |->
                     LET blk == out.d[x]
                     IN  IF x \notin {"top", "bottom"} THEN blk
                         ELSE IF IsList(blk)
                         THEN StrOrNone(JoinComma(StrippedStrs(blk.l)))
                         ELSE IF ~IsNone(blk) /\ ~IsStr(blk) /\ ~IsDict(blk)
                         THEN StrOrNone(strip(PyStr(blk)))
                         ELSE blk])

\* as_str of Record._coerce_camera
as_str(x) ==
    CASE IsNone(x)    -> Null
      [] IsList(x)    -> StrOrNone(JoinComma(StrippedStrs(x.l)))
      [] x.k = "bool" -> IF x.s = "True" THEN Str("yes") ELSE Str("no")
      [] x.k = "num"  -> StrOrNone(strip(x.s))
      [] x.k = "str"  -> StrOrNone(strip(x.s))

\* Record._coerce_camera
_coerce_camera(v) ==
    IF ~IsDict(v) THEN _default_camera
    ELSE LET out == [x \in {"view", "multiview", "views", "angle"} |->
                       as_str(Get(v, x))]
             mv == lower(Or(out["multiview"], Str("")).s)
             multiview ==
                 IF mv \in {"true", "yes", "1"} THEN Str("yes")
                 ELSE IF mv \in {"false", "no", "0"} THEN Str("no")
                 ELSE IF mv = "" THEN Null
                 ELSE out["multiview"]
             views ==
                 IF Truthy(out["views"])
                 THEN StrOrNone(JoinComma(Tokens(out["views"].s)))
                 ELSE out["views"]
         IN  Dict([x \in DOMAIN out |->
                     CASE x = "multiview" -> multiview
                       [] x = "views"     -> views
                       [] OTHER           -> out[x]])

IsOptStr(v) == IsStr(v) \/ IsNone(v)

\* Dict[str, Optional[str]]
IsDictOptStr(v) == IsDict(v) /\ \A x \in DOMAIN v.d : IsOptStr(v.d[x])

\* Dict[str, float]; values that pydantic converts to a float (bools, numeric
\* strings) are not in the model's universe
IsDictFloat(v) == IsDict(v) /\ \A x \in DOMAIN v.d : v.d[x].k = "num"

OptStrFields ==
    {"garment_type", "silhouette", "fit_and_drape", "pose", "photo_style",
     "color_primary", "color_secondary", "prompt_text", "version", "source_hash"}

DictOptStrFields ==
    {"fabric", "garment", "environment_lighting", "footwear", "model", "styling"}

ListStrFields == {"color_palette", "details", "notes_uncertain"}

DictFloatFields == {"photo_metrics", "confidence"}

CoercedFields == {"garment_components", "construction", "camera"}

\* Record.model_fields
RecordFields ==
    {"image_id"} \cup OptStrFields \cup DictOptStrFields \cup ListStrFields
    \cup DictFloatFields \cup CoercedFields

\* the default of a field that has one
FieldDefault(f) ==
    CASE f = "fabric" -> _default_fabric
      [] f = "garment" -> _default_garment
      [] f = "garment_components" -> _default_garment_components
      [] f = "construction" -> _default_construction
      [] f = "environment_lighting" -> _default_environment
      [] f = "footwear" -> _default_footwear
      [] f = "model" -> _default_model
      [] f = "camera" -> _default_camera
      [] f = "styling" -> _default_styling
      [] f \in ListStrFields -> List(<<>>)
      [] f \in DictFloatFields -> Dict(EmptyD)
      [] OTHER -> Null

\* whether the value given for a field passes the field's type
FieldValid(f, v) ==
    CASE f = "image_id" -> IsStr(v)
      [] f \in OptStrFields -> IsOptStr(v)
      [] f \in DictOptStrFields -> IsDictOptStr(v)
      [] f \in ListStrFields -> AllStr(v)
      [] f \in DictFloatFields -> IsDictFloat(v)
      [] f \in CoercedFields -> TRUE

\* the fields pydantic reports for the keyword arguments kw
InvalidFields(kw) ==
    {f \in RecordFields :
        IF f \in DOMAIN kw.d THEN ~FieldValid(f, kw.d[f]) ELSE f = "image_id"}

\* Record(**kw).model_dump(mode="python", exclude_none=False): [err, fields, v]
Record(kw) ==
    With(kw, LAMBDA given :
      With(InvalidFields(given), LAMBDA bad :
        IF bad # {}
        THEN [err |-> "ValidationError", fields |-> bad, v |-> Null]
        ELSE [err |-> "", fields |-> {},
              v |-> Dict([f \in RecordFields |->
                            IF f \notin DOMAIN given.d THEN FieldDefault(f)
                            ELSE CASE f = "garment_components" ->
                                        _coerce_gcs(given.d[f])
                                   [] f = "construction" -> _coerce_cons(given.d[f])
                                   [] f = "camera" -> _coerce_camera(given.d[f])
                                   [] OTHER -> given.d[f]])]))

\* describe_image's tail without its schema step (the filter to the declared
\* fields and Record(...).model_dump())
FinalizeWithoutSchema(folded, norm) ==
    With(_adapt_colors_from_vlm(Dict(Put(folded.d, "image_path", Str("img1.jpg")))),
         LAMBDA a :
      IF a.err # "" THEN [err |-> a.err, fields |-> {}, v |-> Null]
      ELSE With(IF norm THEN normalize_record(SanitizeDetails(a.v))
                ELSE Ok(SanitizeDetails(a.v)), LAMBDA n :
        IF n.err # "" THEN [err |-> n.err, fields |-> {}, v |-> Null]
        ELSE [err |-> "", fields |-> {},
              v |-> _sanitize_types(FieldDefaults(n.v))]))

\* describe_image from "rec['image_path'] = str(path)" to its return, for the
\* record folded from the passes: [err, fields, v].  validate_record_colors
\* changes nothing and what it raises is swallowed, so it has no part here.
Finalize(folded, norm) ==
    With(_adapt_colors_from_vlm(Dict(Put(folded.d, "image_path", Str("img1.jpg")))),
         LAMBDA a :
      IF a.err # "" THEN [err |-> a.err, fields |-> {}, v |-> Null]
      ELSE With(IF norm THEN normalize_record(SanitizeDetails(a.v))
                ELSE Ok(SanitizeDetails(a.v)), LAMBDA n :
        IF n.err # "" THEN [err |-> n.err, fields |-> {}, v |-> Null]
        ELSE With(_sanitize_types(FieldDefaults(n.v)), LAMBDA t :
          Record(Dict([x \in DOMAIN t.d \cap RecordFields |-> t.d[x]])))))

---------------------------------------------------------------------------
(* Input universes *)

\* marks a key that a generated mapping does not hold
Absent == [k |-> "absent"]

\* the mapping holding the keys of choice whose value is not Absent
MkDict(choice) ==
    Dict([x \in {y \in DOMAIN choice : choice[y] # Absent} |-> choice[x]])

\* Optional[float] confidences, in hundredths
NoConf == [k |-> "null"]
Conf(c) == [k |-> "num", c |-> c]

Accent(role, name) ==
    Dict([role |-> Str(role), name |-> Str(name), hex |-> Null])

LongPose == "standing, three-quarter turn, hand on hip"

\* accents number from..to of a run of distinct colour accents
AccentNames ==
    <<"red", "orange", "gold", "olive", "green", "teal", "blue", "navy",
      "violet", "plum", "white", "gray", "black", "beige">>
AccentRun(from, to) ==
    [i \in 1..(to - from + 1) |-> Accent("trim", AccentNames[from + i - 1])]

MergeBases ==
    {Null} \cup
    {MkDict([image_id |-> Str("img1"), pose |-> p, construction |-> c,
             colors |-> a, color_palette |-> cp]) :
        p \in {Absent, Null, Str("standing"), Str(LongPose)},
        c \in {Absent, Dict([seams |-> Str("flat seam")]),
               Dict([seams |-> Null, closure |-> Str("zip")])},
        a \in {Absent,
               Dict([accents |-> List(<<Accent("buttons", "brown"),
                                        Accent("buttons", "brown")>>)]),
               Dict([accents |-> List(AccentRun(1, 7))])},
        cp \in {Absent, List(<<Str("navy"), Str("white")>>)}}

MergeFragments ==
    {Null, List(<<Str("dress")>>), Str("no garment visible"), Bool("True"),
     Dict([garment_components |->
             Dict([layers |-> List(<<Str("slip"), Str("slip")>>)])])} \cup
    {MkDict([pose |-> p, construction |-> c, colors |-> a,
             color_palette |-> cp]) :
        p \in {Absent, Null, Str(""), Str("walking"), Str("standing"),
               Str(LongPose)},
        c \in {Absent, Dict([seams |-> Str("princess seam")]),
               Dict([seams |-> Null]), Dict([seams |-> Str("")])},
        a \in {Absent,
               Dict([accents |-> List(<<Accent("piping", "white"),
                                        Accent("piping", "white")>>)]),
               Dict([accents |-> List(<<Accent("piping", "white")>>)]),
               Dict([accents |-> List(AccentRun(7, 14))])},
        cp \in {Absent, List(<<Str("white"), Str("red")>>)}}

\* <<confidence of base, confidence of incoming>>
ConfPairs ==
    {<<NoConf, NoConf>>, <<Conf(90), Conf(30)>>, <<Conf(30), Conf(90)>>,
     <<Conf(88), Conf(90)>>}

NormFabrics ==
    {Absent, Null, Str("cotton"),
     Dict([type |-> Str("cotton")]),
     Dict([type |-> Bool("True")]),
     Dict([type |-> Str("satin"), finish |-> Str("Shiny")])} \cup
    {Dict([type |-> t, finish |-> Str("shiny"), texture |-> x]) :
        t \in {Null, Str("polyester"), Str("null"), Str("none"), Str("unknown"),
               Str("string or null"), Str(" NULL "), Str("silk")},
        x \in {Str("smooth"), Str("reflective")}}

NormInputs ==
    {MkDict([image_id |-> Str("img1"), pose |-> p, fabric |-> f,
             color_palette |-> cp, construction |-> c,
             garment_components |-> g]) :
        p \in {Absent, Null, Str(""), Str("standing"), Str("None")},
        f \in NormFabrics,
        cp \in {Absent, List(<<Str("navy")>>),
                List(<<Str(" Cream "), Str("ivory"), Str("null")>>),
                List(<<Str(""), Num("5")>>)},
        c \in {Absent,
               Dict([seams |-> Str("flat seam"), stitching_color |-> Str("match")]),
               Dict([closure |-> Str("none"),
                     top |-> Dict([seams |-> Str("null"),
                                   stitching_color |-> Str("contrast dark")])])},
        g \in {Absent,
               Dict([top_length |-> Str("crop"),
                     layers |-> List(<<Str("jacket"), Str("none"), Str("")>>)]),
               Dict([layers |-> Str("jacket")])}}

---------------------------------------------------------------------------
(* merge_pass harness *)

NormIdle ==
    /\ nState = "unused" /\ nIn = Null /\ nOnce = Ok(Null) /\ nTwice = Ok(Null)
    /\ nInAfter = Null

SanIdle ==
    /\ sState = "unused" /\ sIn = Null /\ sOut = Null /\ sInAfter = Null

EnumIdle ==
    /\ eState = "unused" /\ eFs = [files |-> {}, dirs |-> {}]
    /\ ePath = <<>> /\ eFound = {}

EngineIdle ==
    /\ requested = "stub" /\ importable = {} /\ model = "StubCaptioner"
    /\ pc = "unused" /\ normalize = TRUE /\ rec = Null /\ passesLeft = 0
    /\ frags = <<>> /\ result = Null /\ error = NoError

MergeIdle ==
    /\ mState = "unused" /\ mBase = Null /\ mIn = Null
    /\ mConfIn = NoConf /\ mConfBase = NoConf /\ mOut = Ok(Null)
    /\ mBaseAfter = Null /\ mInAfter = Null /\ mTwice = Ok(Null)

InitMerge ==
    /\ mState = "ready"
    /\ mBase \in MergeBases
    /\ mIn = Null /\ mConfIn = NoConf /\ mConfBase = NoConf
    /\ mOut = Ok(Null) /\ mBaseAfter = mBase /\ mInAfter = Null
    /\ mTwice = Ok(Null)
    /\ NormIdle /\ SanIdle /\ EnumIdle /\ EngineIdle

\* out = merge_pass(base, incoming, conf_in, conf_base)
MergeCall ==
    /\ mState = "ready"
    /\ \E incoming \in MergeFragments, cp \in ConfPairs :
         LET r == merge_pass(mBase, incoming, cp[2], cp[1])
         IN  /\ mIn' = incoming
             /\ mConfBase' = cp[1]
             /\ mConfIn' = cp[2]
             /\ mOut' = [err |-> r.err, v |-> r.v]
             /\ mBaseAfter' = r.base
             /\ mInAfter' = r.incoming
    /\ mState' = "called"
    /\ UNCHANGED <<mBase, mTwice, normVars, sanVars, enumVars, engineVars>>

\* again = merge_pass(out, incoming, conf_in, conf_base): the same fragment
\* object folded into the result of the first call
MergeAgain ==
    /\ mState = "called" /\ mOut.err = ""
    /\ LET r == merge_pass(mOut.v, mInAfter, mConfIn, mConfBase)
       IN  mTwice' = [err |-> r.err, v |-> r.v]
    /\ mState' = "twice"
    /\ UNCHANGED <<mBase, mIn, mConfIn, mConfBase, mOut, mBaseAfter, mInAfter,
                   normVars, sanVars, enumVars, engineVars>>

NextMerge == MergeCall \/ MergeAgain

SpecMerge == InitMerge /\ [][NextMerge]_vars

---------------------------------------------------------------------------
(* Claims about merge_pass *)

\* "empty": None, "", [] and {}
Empty(v) ==
    \/ v.k = "null"
    \/ v.k = "str" /\ v.s = ""
    \/ v.k = "list" /\ v.l = <<>>
    \/ v.k = "dict" /\ DOMAIN v.d = {}

IsScalar(v) == v.k \in {"str", "num", "bool"}

\* the value at a path of one or two keys; None when the path is not there
At(v, p) ==
    IF ~IsDict(v) THEN Null
    ELSE IF Len(p) = 1 THEN Get(v, p[1])
    ELSE IF IsDict(Get(v, p[1])) THEN Get(Get(v, p[1]), p[2]) ELSE Null

\* the fields both mappings hold: top-level keys, and the keys of a nested
\* object both hold
CommonPaths(a, b) ==
    {<<x>> : x \in DOMAIN a.d \cap DOMAIN b.d} \cup
    UNION {{<<x, y>> : y \in DOMAIN a.d[x].d \cap DOMAIN b.d[x].d} :
             x \in {z \in DOMAIN a.d \cap DOMAIN b.d :
                      IsDict(a.d[z]) /\ IsDict(b.d[z])}}

MergedTwoMappings ==
    /\ mState = "called" /\ mOut.err = ""
    /\ IsDict(mBase) /\ IsDict(mIn)

\* both confidences are known and differ by more than 0.05
ConfDecides ==
    /\ mConfBase # NoConf /\ mConfIn # NoConf
    /\ \/ mConfBase.c - mConfIn.c > 5
       \/ mConfIn.c - mConfBase.c > 5

\* C1: when base and incoming both hold a non-empty scalar for a field and
\* their confidences differ by more than 0.05, the merged field holds the
\* value of the side with the higher confidence.
C1_ConfidenceDecides ==
    (MergedTwoMappings /\ ConfDecides) =>
        \A p \in CommonPaths(mBase, mIn) :
            LET va == At(mBase, p)
                vb == At(mIn, p)
            IN  (IsScalar(va) /\ IsScalar(vb) /\ ~Empty(va) /\ ~Empty(vb)) =>
                    At(mOut.v, p) = IF mConfBase.c > mConfIn.c THEN va ELSE vb

\* C2: when exactly one of base[f] and incoming[f] is empty, the merged f is
\* the non-empty one, whichever side supplied it.
C2_EmptySideLoses ==
    MergedTwoMappings =>
        \A p \in CommonPaths(mBase, mIn) :
            LET va == At(mBase, p)
                vb == At(mIn, p)
            IN  /\ (Empty(va) /\ IsScalar(vb) /\ ~Empty(vb)) => At(mOut.v, p) = vb
                /\ (Empty(vb) /\ IsScalar(va) /\ ~Empty(va)) => At(mOut.v, p) = va

\* C3: when confidence does not decide and both sides hold a non-empty
\* string, the merged value is the longer string, and the incoming one when
\* both are equally long.
C3_LongerStringWins ==
    (MergedTwoMappings /\ ~ConfDecides) =>
        \A p \in CommonPaths(mBase, mIn) :
            LET va == At(mBase, p)
                vb == At(mIn, p)
            IN  (IsStr(va) /\ IsStr(vb) /\ ~Empty(va) /\ ~Empty(vb)) =>
                    At(mOut.v, p) = IF Len(va.s) > Len(vb.s) THEN va ELSE vb

\* C4: merge_pass leaves both of its arguments as they were.
C4_InputsUnchanged ==
    mState = "called" => (mBaseAfter = mBase /\ mInAfter = mIn)

\* C11: folding an empty fragment ({} or None) into a record, with any
\* confidence argument, returns a mapping equal to that record.
C11_EmptyPassChangesNothing ==
    (mState = "called" /\ IsDict(mBase) /\ ~Truthy(mIn))
    => mOut = Ok(mBase)

C11_Witness ==
    /\ mState = "called"
    /\ IsDict(mBase) /\ "colors" \in DOMAIN mBase.d
    /\ mIn = Dict(EmptyD) /\ mConfIn = Conf(30)
    /\ mOut = Ok(mBase)

---------------------------------------------------------------------------
(* normalize_record harness *)

InitNorm ==
    /\ nState = "ready"
    /\ nIn \in NormInputs
    /\ nOnce = Ok(Null) /\ nTwice = Ok(Null) /\ nInAfter = nIn
    /\ MergeIdle /\ SanIdle /\ EnumIdle /\ EngineIdle

\* once = normalize_record(r)
NormalizeOnce ==
    /\ nState = "ready"
    /\ nOnce' = normalize_record(nIn)
    /\ nInAfter' = nOnce'.v
    /\ nState' = "once"
    /\ UNCHANGED <<nIn, nTwice, mergeVars, sanVars, enumVars, engineVars>>

\* twice = normalize_record(once)
NormalizeAgain ==
    /\ nState = "once"
    /\ nOnce.err = ""
    /\ nTwice' = normalize_record(nOnce.v)
    /\ nState' = "twice"
    /\ UNCHANGED <<nIn, nOnce, nInAfter, mergeVars, sanVars, enumVars, engineVars>>

NextNorm == NormalizeOnce \/ NormalizeAgain

SpecNorm == InitNorm /\ [][NextNorm]_vars

---------------------------------------------------------------------------
(* Claims about normalize_record *)

\* every string held by a value, at any depth
RECURSIVE StringsIn(_)
StringsIn(v) ==
    CASE IsStr(v)  -> {v.s}
      [] IsList(v) -> UNION {StringsIn(v.l[i]) : i \in 1..Len(v.l)}
      [] IsDict(v) -> UNION {StringsIn(v.d[x]) : x \in DOMAIN v.d}
      [] OTHER     -> {}

\* C9: normalize_record(normalize_record(r)) equals normalize_record(r).
C9_NormalizeIdempotent ==
    (nState = "twice" /\ nTwice.err = "") => nTwice.v = nOnce.v

\* C10: after normalize_record no string of the record, at any depth, is one
\* of the placeholders 'string or null', 'null', 'none', '' or 'unknown'
\* (ignoring case and surrounding white space).
C10_NoPlaceholderLeft ==
    (nState = "once" /\ nOnce.err = "") =>
        \A str \in StringsIn(nOnce.v) :
            lower(strip(str)) \notin {"string or null", "null", "none", "", "unknown"}

---------------------------------------------------------------------------
(* Engine *)

MaxPasses == 3

PassA ==
    Dict([garment_type |-> Str("dress"),
          fabric |-> Dict([type |-> Str("polyester"), finish |-> Str("shiny"),
                           texture |-> Str("smooth")]),
          color_palette |-> List(<<Str("navy")>>)])

PassB ==
    Dict([construction |-> Dict([seams |-> Str("princess seam"),
                                 closure |-> Str("zip")])])

PassC ==
    Dict([pose |-> Str("standing, facing camera"),
          camera |-> Dict([view |-> Str("back")])])

\* what a backend's run() can hand back as "out": the parsed JSON of a reply
EngineFragments ==
    {PassA, PassB, PassC,
     Dict(EmptyD),
     List(<<Str("dress")>>),
     Dict([pose |-> Bool("True")]),
     Dict([garment_type |-> Num("5"),
           garment |-> Dict([top |-> Bool("True"), bottom |-> Str("skirt")]),
           construction |-> Dict([seams |-> Num("1")])]),
     Dict([fabric |-> Str("cotton")]),
     Dict([image_id |-> Null]),
     Dict([footwear |-> Dict([type |-> Str("boots")]),
           model |-> Dict([gaze |-> Str("direct")])]),
     Dict([colors |-> Dict([primary |-> Str(" Cream "),
                            accents |-> List(<<Accent("buttons", "brown"),
                                               Accent("buttons", "brown")>>),
                            pattern |-> Dict([type |-> Str("stripe"),
                                              foreground |-> Str("white")])]),
           details |-> List(<<Str("lace trim"), Num("5")>>)]),
     Dict([camera |-> Dict([multiview |-> Bool("True"),
                            views |-> List(<<Str("front"), Str("back")>>)]),
           garment_components |-> Dict([layers |-> Str("jacket, vest")])]),
     Dict([fabric |-> Dict([type |-> Str("unknown")]), notes |-> Str("blurry")]),
     Dict([garment |-> Str("dress")]),
     Dict([garment_type |-> Str("skirt"), pose |-> Str("walking")]),
     Dict([camera |-> Dict([multiview |-> Str("sometimes")])]),
     Dict([image_id |-> Str("img2"), source_hash |-> Str("h2")])}

\* "self.model = ..." of Engine.__init__: the class of the backend chosen for
\* the model argument m, imp being the captioner classes that could be imported
\* (and built: their API keys are set)
EngineModel(m, imp) ==
    IF m = "openai" /\ "OpenAIVLM" \in imp THEN "OpenAIVLM"
    ELSE IF m = "blip2" /\ "Blip2Captioner" \in imp THEN "Blip2Captioner"
    ELSE "StubCaptioner"

\* the model arguments the callers of Engine pass
ModelNames == {"stub", "openai", "blip2", "gemini"}

\* captioners/__init__.py: the classes whose import can succeed.  blip2_hf.py
\* is not valid Python (its class body is not indented), so its import always
\* fails and Blip2Captioner stays None.
Importables == SUBSET {"OpenAIVLM", "GeminiVLM"}

PassIds == {"A", "B", "C", "D"}

\* StubCaptioner.run(path, pass_id) for an image with a one-shade palette, no
\* midriff gap and no bright centre line: the fragment returned
StubRun(pid) ==
    LET has_zip == FALSE
        construction ==
            Dict([seams |-> Str("panel seams"), stitching |-> Str("topstitch"),
                  hems |-> Str("clean finish"),
                  closure |-> Str(IF has_zip THEN "zip" ELSE "none")])
        lighting == Dict([setup |-> Str("softbox"), mood |-> Str("neutral")])
    IN  CASE pid = "B" ->
               Dict([image_id |-> Str("img1"), construction |-> construction])
          [] pid = "C" ->
               Dict([image_id |-> Str("img1"), pose |-> Str("walking"),
                     environment_lighting |-> lighting,
                     photo_style |-> Str("runway")])
          [] OTHER ->
               Dict([image_id |-> Str("img1"),
                     garment_type |-> Str(IF has_zip THEN "jacket" ELSE "dress"),
                     silhouette |-> Str("sheath"),
                     fabric |-> Dict([type |-> Str("jersey"),
                                      texture |-> Str("smooth"),
                                      weight |-> Str("medium")]),
                     color_palette |-> List(<<Str("navy")>>),
                     construction |-> construction,
                     details |-> List(IF has_zip
                                      THEN <<Str("exposed front zipper with ring pull")>>
                                      ELSE <<>>),
                     fit_and_drape |-> Str("soft drape"),
                     styling |-> Dict([layering |-> Null, accessories |-> Null]),
                     pose |-> Str("walking"),
                     environment_lighting |-> lighting,
                     photo_style |-> Str("runway")])

\* the confidence map StubCaptioner.run returns next to its fragment
StubConf == [k |-> "dict"]

\* self.model.run(path, pass_id=pid) when it returns: the <<out, conf>> pairs
\* it can return.  OpenAIVLM.run gives the parsed JSON of the reply ({} when it
\* cannot be parsed) with 0.8 or 0.0, and {} with None for an unknown pass.
Run(m, pid) ==
    IF m = "OpenAIVLM"
    THEN IF pid \in {"A", "B", "C"}
         THEN {<<out, IF Truthy(out) THEN Conf(80) ELSE Conf(0)>> :
                 out \in EngineFragments}
         ELSE {<<Dict(EmptyD), NoConf>>}
    ELSE {<<StubRun(pid), StubConf>>}

\* what frags records for a pass whose backend call raised
BackendFailure == [k |-> "failed"]

\* Engine(model=requested, normalize=normalize), before describe_image is called
Init ==
    /\ requested \in ModelNames
    /\ importable \in Importables
    /\ model = EngineModel(requested, importable)
    /\ normalize \in BOOLEAN
    /\ pc = "idle"
    /\ rec = Null /\ passesLeft = 0 /\ frags = <<>>
    /\ result = Null /\ error = NoError
    /\ MergeIdle /\ NormIdle /\ SanIdle /\ EnumIdle

\* describe_image(path, passes) up to the loop over the passes
DescribeImage ==
    /\ pc = "idle"
    /\ pc' = "fold"
    /\ passesLeft' \in 0..MaxPasses
    /\ rec' = Dict([image_id |-> Str("img1"), source_hash |-> Str("h1")])
    /\ UNCHANGED <<requested, importable, model, normalize, frags, result,
                   error, mergeVars, normVars, sanVars, enumVars>>

\* one turn of "for pid in passes": run the backend, fold its fragment in
RunPass ==
    /\ pc = "fold"
    /\ passesLeft > 0
    /\ \E pid \in PassIds : \E oc \in Run(model, pid) :
         LET m == merge_pass(rec, oc[1], oc[2], Null)
         IN  /\ frags' = Append(frags, oc[1])
             /\ IF m.err # ""
                THEN /\ pc' = "raised"
                     /\ error' = [type |-> m.err, fields |-> {}]
                     /\ UNCHANGED rec
                ELSE /\ rec' = m.v
                     /\ UNCHANGED <<pc, error>>
    /\ passesLeft' = passesLeft - 1
    /\ UNCHANGED <<requested, importable, model, normalize, result,
                   mergeVars, normVars, sanVars, enumVars>>

\* one turn of "for pid in passes" in which self.model.run raises: the call of
\* client.chat.completions.create in OpenAIVLM._call is outside any try, so a
\* connection error or a timeout leaves _call, run and then describe_image,
\* which has no handler around the call.
RunPassBackendRaises ==
    /\ pc = "fold"
    /\ passesLeft > 0
    /\ model = "OpenAIVLM"
    /\ frags' = Append(frags, BackendFailure)
    /\ pc' = "raised"
    /\ error' = [type |-> "APIConnectionError", fields |-> {}]
    /\ passesLeft' = passesLeft - 1
    /\ UNCHANGED <<requested, importable, model, normalize, rec, result,
                   mergeVars, normVars, sanVars, enumVars>>

\* the rest of describe_image, after the last pass
Finish ==
    /\ pc = "fold"
    /\ passesLeft = 0
    /\ LET f == Finalize(rec, normalize)
       IN  IF f.err # ""
           THEN /\ pc' = "raised"
                /\ error' = [type |-> f.err, fields |-> f.fields]
                /\ UNCHANGED result
           ELSE /\ pc' = "returned"
                /\ result' = f.v
                /\ UNCHANGED error
    /\ UNCHANGED <<requested, importable, model, normalize, rec, passesLeft,
                   frags, mergeVars, normVars, sanVars, enumVars>>

Next == DescribeImage \/ RunPass \/ RunPassBackendRaises \/ Finish

Spec == Init /\ [][Next]_vars

---------------------------------------------------------------------------
(* Claims about describe_image *)

\* the declared sub-keys of the nested objects of the record
SubKeys ==
    [fabric |-> {"type", "texture", "weight", "finish"},
     garment |-> {"top", "bottom", "top_style", "top_sleeve"},
     garment_components |-> {"top_length", "bottom_length", "layers"},
     construction |-> {"seams", "stitching", "stitching_color", "hems",
                       "closure", "top", "bottom"},
     footwear |-> {"type", "color"},
     model |-> {"framing", "expression", "gaze"},
     camera |-> {"view", "multiview", "views", "angle"},
     environment_lighting |-> {"setup", "mood", "background"}]

\* C5: every record returned by describe_image holds every declared nested
\* object, each one a mapping with every declared sub-key present.
C5_NestedObjectsComplete ==
    pc = "returned" =>
        \A f \in DOMAIN SubKeys :
            /\ f \in DOMAIN result.d
            /\ IsDict(result.d[f])
            /\ SubKeys[f] \subseteq DOMAIN result.d[f].d

\* C6: describe_image either returns a record holding every declared field,
\* or raises a validation error that names the required field image_id and
\* nothing else; no other exception leaves it.
C6_ReturnsOrNamesImageId ==
    /\ pc = "returned" => IsDict(result) /\ DOMAIN result.d = RecordFields
    /\ pc = "raised" => error = [type |-> "ValidationError", fields |-> {"image_id"}]

\* the sub-fields the schema declares as strings
StringSubKeys ==
    [fabric |-> SubKeys["fabric"],
     garment |-> SubKeys["garment"],
     construction |-> ConstructionStringKeys,
     footwear |-> SubKeys["footwear"],
     model |-> SubKeys["model"],
     environment_lighting |-> SubKeys["environment_lighting"]]

TopStringKeys ==
    {"garment_type", "silhouette", "fit_and_drape", "pose", "photo_style",
     "color_primary", "color_secondary"}

WrongTyped(v) == v.k \in {"bool", "num", "list", "dict"}

\* the top-level string fields of r that hold a wrong-typed value
WrongTop(r) == {f \in TopStringKeys \cap DOMAIN r.d : WrongTyped(r.d[f])}

\* the <<object, sub-key>> string sub-fields of r that hold a wrong-typed value
WrongSub(r) ==
    UNION {{<<f, x>> : x \in {y \in StringSubKeys[f] \cap DOMAIN r.d[f].d :
                                WrongTyped(r.d[f].d[y])}} :
           f \in {g \in DOMAIN StringSubKeys \cap DOMAIN r.d : IsDict(r.d[g])}}

\* r with null in place of every wrong-typed value of a string field
Nullified(r) ==
    Dict([f \in DOMAIN r.d |->
            IF f \in WrongTop(r) THEN Null
            ELSE IF f \in DOMAIN StringSubKeys /\ IsDict(r.d[f])
            THEN Dict([x \in DOMAIN r.d[f].d |->
                         IF <<f, x>> \in WrongSub(r) THEN Null ELSE r.d[f].d[x]])
            ELSE r.d[f]])

\* describe_image ran to its end on fragments that are all mappings
FoldedMappings ==
    /\ pc \in {"returned", "raised"}
    /\ \A i \in 1..Len(frags) : IsDict(frags[i])

\* C7: when string-typed fields of the folded record hold a boolean, a number,
\* a list or a mapping, and the same record with null in their place goes
\* through, then describe_image returns and each of those fields is null in
\* the record it returns.
C7_WrongTypesBecomeNull ==
    (/\ FoldedMappings
     /\ WrongTop(rec) \cup WrongSub(rec) # {}
     /\ Finalize(Nullified(rec), normalize).err = "")
    => /\ pc = "returned"
       /\ \A f \in WrongTop(rec) : result.d[f] = Null
       /\ \A p \in WrongSub(rec) : Get(result.d[p[1]], p[2]) = Null

\* C8: passes A, B, C folded in that order (normalize on) give a record with
\* garment_type "dress", fabric.type "satin", construction.closure "zip", no
\* "double-breasted" detail, a pose containing "facing camera", and
\* camera.view "front".
C8_ThreePassFold ==
    (/\ pc \in {"returned", "raised"}
     /\ normalize
     /\ frags = <<PassA, PassB, PassC>>)
    => /\ pc = "returned"
       /\ result.d["garment_type"] = Str("dress")
       /\ Get(result.d["fabric"], "type") = Str("satin")
       /\ Get(result.d["construction"], "closure") = Str("zip")
       /\ \A i \in 1..Len(result.d["details"].l) :
             ~Contains(result.d["details"].l[i].s, "double-breasted")
       /\ IsStr(result.d["pose"])
       /\ Contains(result.d["pose"].s, "facing camera")
       /\ Get(result.d["camera"], "view") = Str("front")

\* C12: a pass whose backend call fails counts as an empty fragment: it does
\* not end describe_image with an exception, the accumulated record is kept
\* and the remaining passes are still run.
C12_FailedPassIsEmptyPass ==
    (frags # <<>> /\ frags[Len(frags)] = BackendFailure)
    => pc = "fold" /\ error = NoError

\* pass number i supplied a non-empty string for the top-level field f
Supplies(i, f) ==
    /\ IsDict(frags[i]) /\ f \in DOMAIN frags[i].d
    /\ IsStr(frags[i].d[f]) /\ frags[i].d[f].s # ""

\* passes i < j supplied different, equally long strings for f, and no pass
\* after j holds f
LaterPassConflict(i, j, f) ==
    /\ i < j /\ Supplies(i, f) /\ Supplies(j, f)
    /\ frags[i].d[f] # frags[j].d[f]
    /\ Len(frags[i].d[f].s) = Len(frags[j].d[f].s)
    /\ \A n \in (j + 1)..Len(frags) : IsDict(frags[n]) /\ f \notin DOMAIN frags[n].d

\* C13: the passes are folded in the order given, and when two passes supply
\* different, equally specific non-empty values for one scalar field, the
\* accumulated record and the returned record hold the value of the later
\* pass (so swapping the two passes swaps the winner).
C13_LaterPassWins ==
    \A i, j \in 1..Len(frags) : \A f \in {"garment_type", "pose"} :
        (LaterPassConflict(i, j, f) /\ pc \in {"fold", "returned"})
        => /\ rec.d[f] = frags[j].d[f]
           /\ pc = "returned" => result.d[f] = frags[j].d[f]

C13_Witness ==
    /\ pc = "returned"
    /\ Len(frags) = 2 /\ frags[1] = PassA
    /\ LaterPassConflict(1, 2, "garment_type")
    /\ result.d["garment_type"] = Str("skirt")

C13_WitnessSwapped ==
    /\ pc = "returned"
    /\ Len(frags) = 2 /\ frags[2] = PassA
    /\ LaterPassConflict(1, 2, "garment_type")
    /\ result.d["garment_type"] = Str("dress")

\* the view names a multiview record may list
ViewNames == {"front", "three-quarter", "side", "back"}

\* C15: in every returned record camera.multiview is 'yes', 'no' or null; and
\* when it is 'yes', camera.views is a non-empty comma-joined list of distinct
\* names of {front, three-quarter, side, back} and camera.view is null.
C15_CameraInvariant ==
    pc = "returned" =>
        LET cam == result.d["camera"]
            views == Get(cam, "views")
        IN  /\ Get(cam, "multiview") \in {Str("yes"), Str("no"), Null}
            /\ Get(cam, "multiview") = Str("yes") =>
                 /\ IsStr(views)
                 /\ Tokens(views.s) # <<>>
                 /\ \A m, n \in 1..Len(Tokens(views.s)) :
                       /\ Tokens(views.s)[m] \in ViewNames
                       /\ m # n => Tokens(views.s)[m] # Tokens(views.s)[n]
                 /\ Get(cam, "view") = Null

---------------------------------------------------------------------------
(* _merge_lists harness *)

MaxLen == 2

\* list items: colour names, a number and the string of its digits, and colour
\* accents, two of which differ only outside role, name and hex
ListItems ==
    {Str("navy"), Str("white"), Str("red"), Str("1"), Num("1"),
     Accent("buttons", "brown"),
     Dict([role |-> Str("buttons"), name |-> Str("brown"), hex |-> Null,
           fraction |-> Num("1")]),
     Accent("piping", "white")}

ListsUpTo(n) == UNION {[1..m -> ListItems] : m \in 0..n}

InitLists ==
    /\ mState = "lists"
    /\ mBase \in {List(l) : l \in ListsUpTo(MaxLen)}
    /\ mIn = Null /\ mConfIn = NoConf /\ mConfBase = NoConf
    /\ mOut = Ok(Null) /\ mBaseAfter = mBase /\ mInAfter = Null
    /\ mTwice = Ok(Null)
    /\ NormIdle /\ SanIdle /\ EnumIdle /\ EngineIdle

\* out = _merge_lists(a, b)
MergeListsCall ==
    /\ mState = "lists"
    /\ \E b \in ListsUpTo(MaxLen) :
         /\ mIn' = List(b)
         /\ mInAfter' = List(b)
         /\ mOut' = Ok(List(_merge_lists(mBase, List(b))))
    /\ mState' = "listed"
    /\ UNCHANGED <<mBase, mConfIn, mConfBase, mBaseAfter, mTwice, normVars,
                   sanVars, enumVars, engineVars>>

NextLists == MergeListsCall

SpecLists == InitLists /\ [][NextLists]_vars

\* what two list items are compared by: role, name and hex for a colour
\* accent, the string form otherwise
Identity(it) ==
    IF IsDict(it) THEN <<it.d["role"], it.d["name"], it.d["hex"]>>
    ELSE <<PyStr(it)>>

Present(it, seq) == \E n \in 1..Len(seq) : Identity(seq[n]) = Identity(it)

NoDuplicate(seq) ==
    \A m, n \in 1..Len(seq) : m # n => Identity(seq[m]) # Identity(seq[n])

\* the items of seq that are not in earlier and not earlier in seq, in order
RECURSIVE NewItems(_, _)
NewItems(seq, earlier) ==
    IF seq = <<>> THEN <<>>
    ELSE IF Present(Head(seq), earlier) THEN NewItems(Tail(seq), earlier)
    ELSE <<Head(seq)>> \o NewItems(Tail(seq), Append(earlier, Head(seq)))

RGet(r, key) == IF key \in DOMAIN r THEN r[key] ELSE Null

\* (r.get(key) or {})
Sub(r, key) == Or(RGet(r, key), Dict(EmptyD))

\* "rec = dict(rec or {})" and the nine setdefault calls
SanitizeDefaults(recIn) ==
    LET r0 == IF Truthy(recIn) THEN recIn.d ELSE EmptyD
        dicts == {"garment", "construction", "garment_components", "model",
                  "camera", "environment_lighting", "photo_metrics"}
        lists == {"details", "notes_uncertain"}
    IN  [x \in DOMAIN r0 \cup dicts \cup lists |->
            IF x \in DOMAIN r0 THEN r0[x]
            ELSE IF x \in dicts THEN Dict(EmptyD) ELSE List(<<>>)]

\* float(v) of the specularity values of the model, in hundredths
Hundredths(v) ==
    CASE v = Num("0.0") -> 0
      [] v = Num("0.5") -> 50
      [] v = Num("0.9") -> 90

\* "spec = float(rec.get('photo_metrics', {}).get('specularity', 0.0))"
Specularity(r) ==
    LET pm == r["photo_metrics"]
    IN  IF "specularity" \in DOMAIN pm.d THEN Hundredths(pm.d["specularity"])
        ELSE 0

\* finish via specularity bands
FinishBands(r) ==
    LET spec == Specularity(r)
        fab == Sub(r, "fabric")
        fin == Get(fab, "finish")
        finish == IF IsStr(fin) THEN lower(strip(fin.s)) ELSE ""
        band == IF spec < 35 THEN "matte"
                ELSE IF spec <= 60 THEN "semi-gloss" ELSE "glossy"
        replaced ==
            \/ finish = ""
            \/ spec < 35 /\ finish \in {"gloss", "glossy", "semi-gloss"}
            \/ 35 <= spec /\ spec <= 60 /\ finish \in {"matte", "gloss", "glossy"}
            \/ spec > 60 /\ finish \in {"matte", "semi-gloss"}
        fab2 == IF replaced THEN Dict(Put(fab.d, "finish", Str(band))) ELSE fab
    IN  Put(r, "fabric", fab2)

\* "[str(d).lower() for d in (rec.get('details') or [])]"
LowerDetails(r) ==
    LET ds == Or(RGet(r, "details"), List(<<>>)).l
    IN  [i \in 1..Len(ds) |-> lower(PyStr(ds[i]))]

\* demote bomber unless rib knit cues exist
DemoteBomber(r) ==
    LET top_style == Get(Sub(r, "garment"), "top_style")
        dets == LowerDetails(r)
        ribby == \E i \in 1..Len(dets) :
                    \/ Contains(dets[i], "ribbed hem")
                    \/ Contains(dets[i], "rib knit")
                    \/ Contains(dets[i], "ribbed cuffs")
    IN  IF IsStr(top_style) /\ lower(strip(top_style.s)) = "bomber" /\ ~ribby
        THEN Put(r, "garment",
                 Dict(Put(r["garment"].d, "top_style", Str("jacket"))))
        ELSE r

\* "has_zip": a zip in the global closure or in the top block's closure
HasZip(r) ==
    LET cons == Sub(r, "construction")
        closure_global == lower(PyStr(Or(Get(cons, "closure"), Str(""))))
        top_blk == IF IsDict(Get(cons, "top")) THEN Get(cons, "top")
                   ELSE Dict(EmptyD)
        closure_top == lower(PyStr(Or(Get(top_blk, "closure"), Str(""))))
    IN  Contains(closure_global, "zip") \/ Contains(closure_top, "zip")

\* jacket inference: cropped + long-sleeve + zipper
InferJacket(r) ==
    LET garment == Sub(r, "garment")
        sleeve == Get(garment, "top_sleeve")
        has_long_sleeve == IsStr(sleeve) /\ Contains(sleeve.s, "long")
        tl == Get(Sub(r, "garment_components"), "top_length")
        top_len == IF IsStr(tl) THEN lower(tl.s) ELSE ""
        is_cropped == top_len \in {"cropped", "short"}
        is_hoodie == Get(garment, "top_style") = Str("hoodie")
    IN  IF HasZip(r) /\ has_long_sleeve /\ is_cropped /\ ~is_hoodie
        THEN LET g == r["garment"].d
                 g1 == Put(g, "top", Or(Get(Dict(g), "top"), Str("jacket")))
             IN  Put(r, "garment", Dict(Put(g1, "top_style", Str("crop jacket"))))
        ELSE r

\* dress silhouette nudge
DressNudge(r) ==
    LET gt == RGet(r, "garment_type")
        gc == Sub(r, "garment_components")
        gc1 == IF Truthy(Get(gc, "bottom_length")) /\ Truthy(Get(gc, "top_length"))
               THEN Dict(Put(gc.d, "top_length", Null)) ELSE gc
        sil == lower(strip(Or(RGet(r, "silhouette"), Str("")).s))
        fd == RGet(r, "fit_and_drape")
        flowy == IsStr(fd) /\ Contains(lower(fd.s), "flowy")
        longish == lower(Or(Get(gc1, "bottom_length"), Str("")).s)
                       \in {"midi", "ankle", "maxi", "floor"}
        r1 == IF flowy /\ longish /\ sil \in {"", "straight"}
              THEN Put(r, "silhouette", Str("A-line")) ELSE r
    IN  IF IsStr(gt) /\ Contains(lower(gt.s), "dress")
        THEN Put(r1, "garment_components", gc1)
        ELSE r

\* the closed set of view names, in the priority order of the source
ViewOrder == <<"front", "three-quarter", "side", "back">>

\* "[t.strip().lower() for t in views.split(',') if t.strip()]"
ViewTokens(views) ==
    LET toks == Tokens(views)
    IN  {lower(toks[i]) : i \in 1..Len(toks)}

\* camera: pose/view reconciliation and multiview canonicalization
CanonCamera(r) ==
    LET p == RGet(r, "pose")
        pose == IF IsStr(p) THEN lower(p.s) ELSE ""
        cam == Sub(r, "camera")
        v == Get(cam, "view")
        view == IF IsStr(v) THEN lower(v.s) ELSE ""
        cam1 == IF Contains(pose, "to camera") /\ view = "back"
                THEN Dict(Put(cam.d, "view", Str("front"))) ELSE cam
        vs == Get(cam1, "views")
        views == IF IsStr(vs) THEN vs.s ELSE ""
        seen == SelectSeq(ViewOrder, LAMBDA t : t \in ViewTokens(views))
        cam2 == IF Get(cam1, "multiview") = Str("yes") /\ seen # <<>>
                THEN Dict(Put(cam1.d, "views", Str(JoinComma(seen))))
                ELSE cam1
    IN  Put(r, "camera", cam2)

\* the first occurrence of every item of seq, in order
RECURSIVE Unique(_)
Unique(seq) ==
    IF seq = <<>> THEN <<>>
    ELSE LET front == Unique(SubSeq(seq, 1, Len(seq) - 1))
             last == seq[Len(seq)]
         IN  IF \E i \in 1..Len(front) : front[i] = last THEN front
             ELSE Append(front, last)

PaletteCap == 2

\* palette cap
CapPalette(r) ==
    LET cp == SelectSeq(Or(RGet(r, "color_palette"), List(<<>>)).l, Truthy)
        cp_unique == Unique(cp)
    IN  Put(r, "color_palette",
            List(IF Len(cp_unique) > PaletteCap
                 THEN SubSeq(cp_unique, 1, PaletteCap) ELSE cp_unique))

LayerDrop ==
    {"jacket", "pants", "trousers", "dress", "skirt", "shorts", "hoodie",
     "top", "bottom"}

\* layers hygiene
CleanLayers(r) ==
    LET gc == Sub(r, "garment_components")
        layers == Get(gc, "layers")
    IN  IF IsList(layers)
        THEN Put(r, "garment_components",
                 Dict(Put(gc.d, "layers",
                          List(SelectSeq(layers.l,
                                 LAMBDA x : lower(strip(PyStr(x)))
                                                \notin LayerDrop)))))
        ELSE r

\* the zipper vs double-breasted step left out
KeepDetails(r) == r

\* zipper vs double-breasted conflict
DropDoubleBreasted(r) ==
    LET ds == Or(RGet(r, "details"), List(<<>>)).l
        dets == [i \in 1..Len(ds) |-> Str(PyStr(ds[i]))]
        filtered == SelectSeq(dets,
                        LAMBDA d : ~Contains(lower(d.s), "double-breasted"))
    IN  IF HasZip(r) /\ Len(filtered) # Len(dets)
        THEN Put(Put(r, "details", List(filtered)), "notes_uncertain",
                 List(Append(r["notes_uncertain"].l,
                     Str("Removed 'double-breasted' due to zipper closure."))))
        ELSE r

\* bottom inference -> skirt
InferSkirt(r) ==
    LET bottom_name == Get(Sub(r, "garment"), "bottom")
        gc == Sub(r, "garment_components")
        bottom_len == lower(Or(Get(gc, "bottom_length"), Str("")).s)
        blk == Get(Sub(r, "construction"), "bottom")
        seams_txt ==
            IF IsDict(blk)
            THEN lower(Or(Get(blk, "seams"), Str("")).s \o " " \o
                       Or(Get(blk, "stitching"), Str("")).s)
            ELSE ""
        cue == \E k \in {"side seam", "visible seam", "contrast", "stitch"} :
                  Contains(seams_txt, k)
    IN  IF ~Truthy(bottom_name) /\ bottom_len \in {"mini", "short"} /\ cue
        THEN Put(Put(r, "garment",
                     Dict(Put(r["garment"].d, "bottom", Str("skirt")))),
                 "notes_uncertain",
                 List(Append(r["notes_uncertain"].l,
                     Str("Inferred bottom as 'skirt' from short length + seams/stitching cues."))))
        ELSE r

\* background default
DefaultBackground(r) ==
    LET env == Sub(r, "environment_lighting")
    IN  Put(r, "environment_lighting",
            IF Truthy(Get(env, "background")) THEN env
            ELSE Dict(Put(env.d, "background", Str("plain studio sweep"))))

\* sanitize_record(rec): the mapping returned
sanitize_record(recIn) ==
    With(FinishBands(SanitizeDefaults(recIn)), LAMBDA a :
    With(InferJacket(DemoteBomber(a)), LAMBDA b :
    With(CanonCamera(DressNudge(b)), LAMBDA c :
    With(DropDoubleBreasted(CleanLayers(CapPalette(c))), LAMBDA d :
    Dict(DefaultBackground(InferSkirt(d)))))))

\* The keys of the argument whose object the copy "dict(rec or {})" shares
\* with the caller and the function assigns into or appends to: fab, cam, gc
\* and env are the caller's objects when they are non-empty ("x or {}"), the
\* garment dict and the notes_uncertain list are the caller's whenever the key
\* is there (setdefault keeps them).
SharedKeys(recIn) ==
    IF ~Truthy(recIn) THEN {}
    ELSE {x \in {"fabric", "camera", "garment_components",
                 "environment_lighting"} \cap DOMAIN recIn.d :
             Truthy(recIn.d[x])}
         \cup ({"garment", "notes_uncertain"} \cap DOMAIN recIn.d)

\* the caller's argument as the call sanitize_record(recIn) leaves it, out
\* being the mapping returned
ArgumentAfter(recIn, out) ==
    IF ~IsDict(recIn) THEN recIn
    ELSE Dict([x \in DOMAIN recIn.d |->
                 IF x \in SharedKeys(recIn) THEN out.d[x] ELSE recIn.d[x]])

(***************************************************************************)
(* sanitize_record harness: one call on a record of SanitizeInputs.        *)
(***************************************************************************)

SanitizeCameras ==
    {Absent,
     Dict([view |-> Str("back")]),
     Dict([view |-> Str("back"), multiview |-> Str("yes"),
           views |-> Str("back, front, back, side")]),
     Dict([multiview |-> Str("yes"), views |-> Str("top, overhead")]),
     Dict([multiview |-> Str("yes"),
           views |-> List(<<Str("back"), Str("front")>>)]),
     Dict([multiview |-> Str("no"), views |-> Str("front, front")])}

\* fabric, photo_metrics and color_palette of an input
SanitizeSurfaces ==
    {[fabric |-> Absent, photo_metrics |-> Absent, color_palette |-> Absent],
     [fabric |-> Dict([type |-> Str("satin"), finish |-> Str("glossy")]),
      photo_metrics |-> Absent, color_palette |-> Absent],
     [fabric |-> Dict([type |-> Str("satin"), finish |-> Str("glossy")]),
      photo_metrics |-> Dict([specularity |-> Num("0.5")]),
      color_palette |-> List(<<Str("navy"), Str(""), Str("navy"),
                               Str("white"), Str("red")>>)],
     [fabric |-> Absent, photo_metrics |-> Absent,
      color_palette |-> List(<<Str("Navy"), Str("navy"), Str("white")>>)]}

SanitizeInputs ==
    {Null} \cup
    {MkDict([image_id |-> Str("img1"), pose |-> p, camera |-> c,
             garment |-> g, construction |-> k, garment_components |-> gc,
             details |-> d, garment_type |-> gt, fabric |-> a.fabric,
             photo_metrics |-> a.photo_metrics,
             color_palette |-> a.color_palette, notes_uncertain |-> n]) :
        p \in {Absent, Str("standing, facing camera"), Str("back to camera")},
        c \in SanitizeCameras,
        g \in {Absent, Dict([top_style |-> Str(" Bomber ")]),
               Dict([top_sleeve |-> Str("long sleeve"),
                     top_style |-> Str("hoodie")]),
               Dict([top_sleeve |-> Str("long sleeve")])},
        k \in {Absent, Dict([closure |-> Str("zip")]),
               Dict([bottom |-> Dict([seams |-> Str("side seam")])]),
               Dict([closure |-> Str("zip"),
                     top |-> Dict([closure |-> Str("buttons")]),
                     bottom |-> Dict([closure |-> Str("buttons")])]),
               Dict([top |-> Dict([closure |-> Str("Zip")])])},
        gc \in {Absent,
                Dict([top_length |-> Str("cropped"),
                      bottom_length |-> Str("Mini"),
                      layers |-> List(<<Str("jacket"), Str("slip")>>)])},
        d \in {Absent,
               List(<<Str("double-breasted front"), Str("ribbed cuffs")>>),
               List(<<Str("Double-Breasted front")>>)},
        gt \in {Absent, Str("Shirt Dress")},
        a \in SanitizeSurfaces,
        n \in {Absent, List(<<Str("low light")>>)}}

InitSanitize ==
    /\ sState = "ready"
    /\ sIn \in SanitizeInputs
    /\ sOut = Null /\ sInAfter = sIn
    /\ MergeIdle /\ NormIdle /\ EnumIdle /\ EngineIdle

\* out = sanitize_record(rec)
SanitizeCall ==
    /\ sState = "ready"
    /\ sOut' = sanitize_record(sIn)
    /\ sInAfter' = ArgumentAfter(sIn, sOut')
    /\ sState' = "called"
    /\ UNCHANGED <<sIn, mergeVars, normVars, enumVars, engineVars>>

NextSanitize == SanitizeCall

SpecSanitize == InitSanitize /\ [][NextSanitize]_vars

(***************************************************************************)
(* Claims about sanitize_record                                            *)
(***************************************************************************)

\* the names of seq are names of ViewOrder, each once, in ViewOrder's order
Canonical(seq) ==
    \E keep \in SUBSET (1..Len(ViewOrder)) :
        seq = SelectSeq(ViewOrder,
                  LAMBDA t : \E i \in keep : ViewOrder[i] = t)

\* C16: whenever camera.multiview is "yes", the returned camera.views holds
\* only names of {front, three-quarter, side, back}, each at most once, in the
\* order front, three-quarter, side, back, whatever the input views held.
C16_ViewsCanonical ==
    (sState = "called" /\ IsDict(sIn)
        /\ Get(Sub(sIn.d, "camera"), "multiview") = Str("yes"))
    => LET views == Get(sOut.d["camera"], "views")
       IN  IsStr(views) /\ Canonical(Tokens(views.s))

\* the spec's example holds: "back, front, back, side" gives "front, side, back"
C16_ExampleHolds ==
    (sState = "called" /\ IsDict(sIn)
        /\ Get(Sub(sIn.d, "camera"), "views") = Str("back, front, back, side"))
    => Get(sOut.d["camera"], "views") = Str("front, side, back")

\* C17: whenever pose says the model faces the camera ("standing, facing
\* camera") and camera.view is "back", the returned camera.view is "front".
C17_FacingPoseGivesFront ==
    (sState = "called" /\ IsDict(sIn)
        /\ IsStr(RGet(sIn.d, "pose"))
        /\ Contains(lower(RGet(sIn.d, "pose").s), "facing camera")
        /\ Get(Sub(sIn.d, "camera"), "view") = Str("back"))
    => Get(sOut.d["camera"], "view") = Str("front")

\* the call leaves the caller's record as it was
SanitizeLeavesArgument == sState = "called" => sInAfter = sIn

(***************************************************************************)
(* Further claims about normalize_record                                   *)
(***************************************************************************)

\* C18: normalize_record never raises: for every record, also one whose
\* fabric, construction or garment_components is not a mapping, whose fabric
\* sub-fields are not strings or whose color_palette holds a non-string, the
\* call returns a record.
C18_NormalizeNeverRaises ==
    nState = "once" => (nOnce.err = "" /\ IsDict(nOnce.v))

\* C19: the normalizer works on its own copy: after normalize_record(r)
\* returns, the mapping that was passed in is what it was before the call.
C19_InputLeftAlone ==
    (nState = "once" /\ nOnce.err = "") => nInAfter = nIn

(***************************************************************************)
(* Claim about Engine.__init__                                             *)
(***************************************************************************)

\* C20: Engine(model="gemini") selects the Gemini backend when the Gemini
\* captioner can be imported, and a requested backend is never replaced by
\* the stub: the class of engine.model is GeminiVLM.
C20_GeminiSelected ==
    (requested = "gemini" /\ "GeminiVLM" \in importable) => model = "GeminiVLM"

(***************************************************************************)
(* utils.is_image and Engine.enumerate_inputs.  A path is the sequence of  *)
(* its names below the directory the harness works in (<<>> is that        *)
(* directory); the file system is the set of paths that are files and the  *)
(* set of paths that are directories.                                      *)
(***************************************************************************)

\* Path.suffix of the file names of the model
Suffix(name) ==
    CASE name \in {"a.jpg", "._c.jpg", "album.jpg"} -> ".jpg"
      [] name = "b.PNG"     -> ".PNG"
      [] name = "e.jpeg"    -> ".jpeg"
      [] name = "notes.txt" -> ".txt"
      [] name \in {"sub", ".DS_Store"} -> ""

\* name.startswith(prefix) on the file names of the model
StartsWith(name, prefix) ==
    \/ name = prefix
    \/ prefix = "._" /\ name = "._c.jpg"

\* is_image(p)
is_image(p) ==
    LET name == p[Len(p)]
    IN  IF StartsWith(name, "._") \/ StartsWith(name, ".DS_Store")
           \/ StartsWith(name, "Thumbs.db")
        THEN FALSE
        ELSE lower(Suffix(name)) \in {".jpg", ".jpeg", ".png", ".webp"}

\* p.iterdir(): the entries of directory p, files and directories
iterdir(fs, p) ==
    {q \in fs.files \cup fs.dirs :
        Len(q) = Len(p) + 1 /\ SubSeq(q, 1, Len(p)) = p}

\* Engine.enumerate_inputs(in_path): the paths of the list returned (iterdir
\* yields every entry once, so the list holds no path twice)
enumerate_inputs(fs, p) ==
    IF p \in fs.files THEN (IF is_image(p) THEN {p} ELSE {})
    ELSE {q \in iterdir(fs, p) : is_image(q)}

\* the file systems of the model: files in the directory, and sub-directories
\* (one of them named like an image) holding files
FileSystems ==
    {[files |-> {<<n>> : n \in top} \cup {<<d, n>> : d \in ds, n \in sub},
      dirs |-> {<<>>} \cup {<<d>> : d \in ds}] :
        top \in SUBSET {"a.jpg", "b.PNG", "._c.jpg", "notes.txt", ".DS_Store"},
        ds \in SUBSET {"sub", "album.jpg"},
        sub \in SUBSET {"e.jpeg", "notes.txt"}}

InitEnumerate ==
    /\ eState = "ready"
    /\ eFs \in FileSystems
    /\ ePath \in {<<>>, <<"a.jpg">>, <<"notes.txt">>} \cap (eFs.files \cup eFs.dirs)
    /\ eFound = {}
    /\ MergeIdle /\ NormIdle /\ SanIdle /\ EngineIdle

\* found = engine.enumerate_inputs(in_path)
EnumerateCall ==
    /\ eState = "ready"
    /\ eFound' = enumerate_inputs(eFs, ePath)
    /\ eState' = "called"
    /\ UNCHANGED <<eFs, ePath, mergeVars, normVars, sanVars, engineVars>>

NextEnumerate == EnumerateCall

SpecEnumerate == InitEnumerate /\ [][NextEnumerate]_vars

\* the files below directory p, at any depth
FilesUnder(fs, p) ==
    {f \in fs.files : Len(f) > Len(p) /\ SubSeq(f, 1, Len(p)) = p}

\* C21: enumerate_inputs on a directory returns exactly the files under it,
\* at any depth of sub-directories, for which is_image is true.
C21_FindsAllImages ==
    (eState = "called" /\ ePath \in eFs.dirs)
    => eFound = {f \in FilesUnder(eFs, ePath) : is_image(f)}

(***************************************************************************)
(* Further claims about describe_image                                     *)
(***************************************************************************)

\* describe_image(img, passes=["A", "B", "C"]) on the stub backend has ended
StubABCDone ==
    /\ model = "StubCaptioner"
    /\ frags = <<StubRun("A"), StubRun("B"), StubRun("C")>>
    /\ pc \in {"returned", "raised"}

\* C22: for an image without zipper or midriff-gap cues, describe_image with
\* the stub backend and passes A, B, C returns a record that Record(**rec)
\* accepts and that has garment_type "dress" and fabric.type "cotton".
C22_StubRoundTrip ==
    StubABCDone
    => /\ pc = "returned"
       /\ Record(result).err = ""
       /\ result.d["garment_type"] = Str("dress")
       /\ Get(result.d["fabric"], "type") = Str("cotton")

\* the part of the round trip that holds: a record is returned, Record accepts
\* it, and its garment_type is "dress"
C22_AcceptedDress ==
    StubABCDone
    => /\ pc = "returned"
       /\ Record(result).err = ""
       /\ result.d["garment_type"] = Str("dress")

\* C23: the record describe_image returns has exactly the declared Record
\* fields as its top-level keys: a key supplied by a pass or added by the
\* engine that is no schema field (colors, pattern, image_path) is absent, and
\* no declared field is absent.
C23_ExactlyDeclaredFields ==
    pc = "returned"
    => /\ DOMAIN result.d = RecordFields
       /\ DOMAIN result.d \cap {"colors", "pattern", "image_path"} = {}

\* a record was returned after a pass supplied the non-schema key colors
C23_Witness ==
    /\ pc = "returned"
    /\ \E i \in 1..Len(frags) : IsDict(frags[i]) /\ "colors" \in DOMAIN frags[i].d
    /\ "colors" \in DOMAIN rec.d
    /\ "image_id" \in DOMAIN result.d /\ "prompt_text" \in DOMAIN result.d

(***************************************************************************)
(* Further claims about sanitize_record                                    *)
(***************************************************************************)

ConstructionFields == {"seams", "stitching", "stitching_color", "hems", "closure"}

\* field f of the construction mapping cons is set at the top level and in
\* both sections, and the top-level value differs from both section values
Disagrees(cons, f) ==
    /\ Truthy(Get(cons, f))
    /\ \A part \in {"top", "bottom"} :
          /\ IsDict(Get(cons, part))
          /\ Truthy(Get(Get(cons, part), f))
          /\ Get(Get(cons, part), f) # Get(cons, f)

\* C24: after sanitize_record, a top-level construction field that was set and
\* disagreed with the values of both construction.top and construction.bottom
\* is null, and the per-section values are kept.
C24_TopLevelConstructionNulled ==
    (sState = "called" /\ IsDict(sIn))
    => \A f \in ConstructionFields :
          Disagrees(Sub(sIn.d, "construction"), f)
          => LET cin == Sub(sIn.d, "construction")
                 cout == sOut.d["construction"]
             IN  /\ Get(cout, f) = Null
                 /\ \A part \in {"top", "bottom"} :
                       Get(Get(cout, part), f) = Get(Get(cin, part), f)

\* C25: a rule whose input data is missing leaves the record's values
\* unchanged: sanitize_record called without a source image, on a record
\* without photo_metrics, returns a fabric.finish that was supplied with the
\* value it had (none of the ten cross-field rules is about it).
C25_FinishKeptWithoutMetrics ==
    (sState = "called" /\ IsDict(sIn)
        /\ "photo_metrics" \notin DOMAIN sIn.d
        /\ Truthy(Get(Sub(sIn.d, "fabric"), "finish")))
    => Get(sOut.d["fabric"], "finish") = Get(Sub(sIn.d, "fabric"), "finish")

\* "details" and "notes_uncertain" of a record, [] when missing
ListOf(r, key) == Or(RGet(r, key), List(<<>>)).l

Mentions(d, word) == Contains(lower(PyStr(d)), word)

CorrectionNote == Str("Removed 'double-breasted' due to zipper closure.")

\* how many entries of seq are x
Count(seq, x) == Cardinality({i \in 1..Len(seq) : seq[i] = x})

\* C28: if the global closure or the top-section closure contains "zip", the
\* returned details hold no entry mentioning "double-breasted" (in any case)
\* and notes_uncertain gains one correction note exactly when a detail was
\* dropped; without a zip closure, details and notes_uncertain are not
\* changed by this rule.
C28_ZipDropsDoubleBreasted ==
    (sState = "called" /\ IsDict(sIn))
    => LET din == ListOf(sIn.d, "details")
           dout == ListOf(sOut.d, "details")
           nin == ListOf(sIn.d, "notes_uncertain")
           nout == ListOf(sOut.d, "notes_uncertain")
           dropped == \E i \in 1..Len(din) : Mentions(din[i], "double-breasted")
       IN  IF HasZip(sIn.d)
           THEN /\ \A i \in 1..Len(dout) : ~Mentions(dout[i], "double-breasted")
                /\ Count(nout, CorrectionNote) = Count(nin, CorrectionNote)
                       + (IF dropped THEN 1 ELSE 0)
           ELSE /\ dout = din
                /\ Count(nout, CorrectionNote) = Count(nin, CorrectionNote)

\* a top-section zip closure, a detail spelt "Double-Breasted front" dropped,
\* and the note appended to the caller's notes
C28_Witness ==
    /\ sState = "called" /\ IsDict(sIn)
    /\ Get(Sub(sIn.d, "construction"), "top") = Dict([closure |-> Str("Zip")])
    /\ ListOf(sIn.d, "details") = <<Str("Double-Breasted front")>>
    /\ ListOf(sOut.d, "details") = <<>>
    /\ ListOf(sOut.d, "notes_uncertain") = <<Str("low light"), CorrectionNote>>

\* C29: the returned color_palette has at most 2 entries, holds no empty
\* entry and no two entries equal ignoring case, and consists of the first
\* entries, in input order, of the de-duplicated input palette.
C29_PaletteCapped ==
    (sState = "called" /\ IsDict(sIn))
    => LET cp == ListOf(sOut.d, "color_palette")
       IN  /\ Len(cp) <= 2
           /\ \A i \in 1..Len(cp) : Truthy(cp[i])
           /\ \A i, j \in 1..Len(cp) :
                 i # j => lower(PyStr(cp[i])) # lower(PyStr(cp[j]))

\* what holds of the palette: at most 2 entries, none empty, no two equal,
\* the first distinct non-empty entries of the input in input order
C29_CappedExactDuplicates ==
    (sState = "called" /\ IsDict(sIn))
    => LET cp == ListOf(sOut.d, "color_palette")
           given == Unique(SelectSeq(ListOf(sIn.d, "color_palette"), Truthy))
       IN  /\ Len(cp) <= 2
           /\ \A i \in 1..Len(cp) : Truthy(cp[i])
           /\ \A i, j \in 1..Len(cp) : i # j => cp[i] # cp[j]
           /\ cp = SubSeq(given, 1, Min(2, Len(given)))

\* C26: identity fields survive the fold: whatever the fragments carry, also
\* image_id or source_hash keys of their own, the record returned has the
\* stem of the source file as image_id and the hash the engine seeded as
\* source_hash.
C26_IdentityKept ==
    pc = "returned"
    => /\ result.d["image_id"] = Str("img1")
       /\ result.d["source_hash"] = Str("h1")

(***************************************************************************)
(* Further claims about merge_pass                                         *)
(***************************************************************************)

\* C27: folding the same fragment twice equals folding it once:
\* merge_pass(merge_pass(b, x), x) = merge_pass(b, x), also for fragments whose
\* nested objects hold lists with repeated entries.
C27_FoldTwiceIsFoldOnce ==
    mState = "twice" => mTwice = mOut

\* colors.accents of a mapping as a list, [] when there is none
AccentsOf(v) ==
    IF IsDict(v) /\ IsDict(Get(v, "colors"))
    THEN AsList(Get(Get(v, "colors"), "accents")) ELSE <<>>

===========================================================================
